---- MODULE Spec2Model ----
(***************************************************************************)
(* Model of W2W/single_page_app.py: the module-level script (imports, the  *)
(* Prometheus request counter and its endless loop), the helpers           *)
(* send_request, process_weather_data and format_outfit_suggestions, and   *)
(* the Submit cycle of single_page_app.                                    *)
(***************************************************************************)
EXTENDS Integers, Sequences, FiniteSets, TLC

\* Longest forecast list process_weather_data is called on by itself.
MaxSamples == 3
\* Longest forecast list ('list') in a body the weather endpoint answers.
MaxBodySamples == 2
\* Largest value of the request counter the model tells apart.
MaxRequests == 24

(***************************************************************************)
(* Python values                                                           *)
(***************************************************************************)

\* float('nan'), the value np.mean gives for an empty list.
NaN == [num |-> 0, den |-> 0]

\* The empty result slot of a call that raised.
NoSummary ==
  [avg_temp |-> NaN, avg_humidity |-> NaN, avg_wind_speed |-> NaN,
   most_common_weather |-> ""]

\* The two objects the module imports under the name Counter, in the order
\* of the import statements (line 7, then line 9).
CounterImports == <<"collections.Counter", "prometheus_client.Counter">>

\* The object the global name Counter is bound to once both imports have
\* run: a later import rebinds the name.
BoundCounter == CounterImports[Len(CounterImports)]

\* The five clothing slots format_outfit_suggestions subscripts, in the
\* order the f-string evaluates them.
Slots == <<"Top", "Bottom", "Footwear", "Outerwear", "Accessories">>

SlotSet == {Slots[i] : i \in 1..Len(Slots)}

\* The forecast entries the model draws lists from (temp, humidity,
\* wind speed, weather[0].main).
ForecastSamples ==
  { [temp |-> 10, humidity |-> 50, speed |-> 1, main |-> "Rain"],
    [temp |-> 12, humidity |-> 60, speed |-> 2, main |-> "Rain"],
    [temp |-> 14, humidity |-> 70, speed |-> 3, main |-> "Clear"],
    [temp |-> 9,  humidity |-> 80, speed |-> 5, main |-> "Clouds"] }

ForecastLists == UNION {[1..n -> ForecastSamples] : n \in 0..MaxSamples}

BodyForecastLists == UNION {[1..n -> ForecastSamples] : n \in 0..MaxBodySamples}

(***************************************************************************)
(* process_weather_data                                                    *)
(***************************************************************************)

RECURSIVE SumSeq(_)
SumSeq(xs) == IF xs = <<>> THEN 0 ELSE Head(xs) + SumSeq(Tail(xs))

\* np.mean(xs): sum over count as an exact fraction; nan (with a warning,
\* not an exception) for an empty list.
Mean(xs) == IF xs = <<>> THEN NaN ELSE [num |-> SumSeq(xs), den |-> Len(xs)]

\* Number of occurrences of x in xs.
Count(xs, x) == Cardinality({i \in 1..Len(xs) : xs[i] = x})

\* collections.Counter(xs).most_common(1)[0][0]: counts are kept in first
\* insertion order and the first entry with the largest count is returned;
\* an empty Counter gives [] and its [0] raises IndexError.
MostCommon(xs) ==
  IF xs = <<>>
    THEN [exc |-> "IndexError", value |-> ""]
    ELSE LET best == CHOOSE i \in 1..Len(xs) :
                       /\ \A j \in 1..Len(xs) : Count(xs, xs[j]) <= Count(xs, xs[i])
                       /\ \A j \in 1..(i - 1) : Count(xs, xs[j]) < Count(xs, xs[i])
         IN  [exc |-> "none", value |-> xs[best]]

\* Counter(weather_main_conditions).most_common(1)[0][0] under the object
\* the name Counter is bound to.  prometheus_client.Counter takes (name,
\* documentation, ...): called with one positional argument it raises
\* TypeError before any counting happens.
CounterMostCommon(binding, xs) ==
  IF binding = "collections.Counter"
    THEN MostCommon(xs)
    ELSE [exc |-> "TypeError", value |-> ""]

\* process_weather_data(weather_data) for weather_data['list'] = list, with
\* the global name Counter bound to `binding`.
process_weather_data(binding, list) ==
  LET temps      == [i \in 1..Len(list) |-> list[i].temp]
      humidities == [i \in 1..Len(list) |-> list[i].humidity]
      wind_speeds == [i \in 1..Len(list) |-> list[i].speed]
      weather_main_conditions == [i \in 1..Len(list) |-> list[i].main]
      avg_temp == Mean(temps)
      avg_humidity == Mean(humidities)
      avg_wind_speed == Mean(wind_speeds)
      most_common == CounterMostCommon(binding, weather_main_conditions)
  IN  IF most_common.exc # "none"
        THEN [exc |-> most_common.exc, value |-> NoSummary]
        ELSE [exc |-> "none",
              value |-> [avg_temp |-> avg_temp,
                         avg_humidity |-> avg_humidity,
                         avg_wind_speed |-> avg_wind_speed,
                         most_common_weather |-> most_common.value]]

(***************************************************************************)
(* format_outfit_suggestions                                               *)
(***************************************************************************)

\* The f-string of format_outfit_suggestions, evaluated left to right over
\* the slots from position i on: the markup lists the slots rendered so far;
\* the first slot missing from the dict raises KeyError and nothing is
\* returned.
RECURSIVE FormatFrom(_, _, _)
FormatFrom(keys, i, done) ==
  IF i > Len(Slots)
    THEN [exc |-> "none", markup |-> done, missing |-> ""]
    ELSE IF Slots[i] \in keys
      THEN FormatFrom(keys, i + 1, Append(done, Slots[i]))
      ELSE [exc |-> "KeyError", markup |-> <<>>, missing |-> Slots[i]]

\* A formatter reading the slots with dict.get: a missing slot is left out of
\* the markup instead of raising.
format_with_get(keys) ==
  [exc |-> "none", markup |-> SelectSeq(Slots, LAMBDA k : k \in keys), missing |-> ""]

\* format_outfit_suggestions(suggestions) for a dict with the given keys.
format_outfit_suggestions(keys) == FormatFrom(keys, 1, <<>>)

(***************************************************************************)
(* send_request                                                            *)
(***************************************************************************)

\* What one network exchange can come back with.  transport "ok" means
\* requests.get/requests.post returned a Response; anything else is the
\* RequestException they raised.  status 0 and parseable FALSE fill the
\* fields of an exchange that produced no Response.
NoBody == [has_city |-> FALSE, has_list |-> FALSE, list |-> <<>>, keys |-> {}]

ConnectionFailed ==
  [transport |-> "ConnectionError", status |-> 0, parseable |-> FALSE, body |-> NoBody]

HttpStatus(code) ==
  [transport |-> "ok", status |-> code, parseable |-> FALSE, body |-> NoBody]

JsonBody(b) ==
  [transport |-> "ok", status |-> 200, parseable |-> TRUE, body |-> b]

\* The Python value None where a Response is expected.
None ==
  [transport |-> "None", status |-> 0, parseable |-> FALSE, body |-> NoBody]

\* The weather endpoint's possible answers: no connection, 404, 204, a
\* status above the 5xx range, 200 with a body that is not JSON, 200 with a
\* JSON object with or without 'city' and 'list'.
WeatherResponses ==
  {ConnectionFailed, HttpStatus(404), HttpStatus(204), HttpStatus(600), HttpStatus(200)}
    \cup {JsonBody([has_city |-> hc, has_list |-> FALSE, list |-> <<>>, keys |-> {}]) :
            hc \in BOOLEAN}
    \cup {JsonBody([has_city |-> hc, has_list |-> TRUE, list |-> l, keys |-> {}]) :
            hc \in BOOLEAN, l \in BodyForecastLists}

\* The recommendation endpoint's possible answers: no connection, 500, 204,
\* a status above the 5xx range, 200 with a body that is not JSON, 200 with
\* a JSON object holding all five slots or all but one.
RecommendationResponses ==
  {ConnectionFailed, HttpStatus(500), HttpStatus(204), HttpStatus(600), HttpStatus(200)}
    \cup {JsonBody([has_city |-> FALSE, has_list |-> FALSE, list |-> <<>>, keys |-> ks]) :
            ks \in {SlotSet} \cup {SlotSet \ {k} : k \in SlotSet}}

\* The endpoints of a page that is not running.
NoResponse == None

\* The json argument of a call made without one.
NoPayload == [activity_level |-> "", activity_type |-> "", summary |-> NoSummary]

\* st.error / st.success / st.subheader / st.write / st.markdown elements.
StError(text) == [kind |-> "error", text |-> text]
StSuccess(text) == [kind |-> "success", text |-> text]
StSubheader(text) == [kind |-> "subheader", text |-> text]
StWrite(text) == [kind |-> "write", text |-> text]
StMarkdown(text) == [kind |-> "markdown", text |-> text]

\* Response.raise_for_status raises HTTPError for a 4xx or 5xx status and
\* for no other.
RaisesForStatus(status) == 400 <= status /\ status < 600

\* bool(response): None is falsy; Response.__bool__ is Response.ok, which is
\* True unless raise_for_status raises.
Truthy(response) == response # None /\ ~RaisesForStatus(response.status)

\* The request part of send_request (lines 72-76): one requests.get or
\* requests.post call is appended to the log of calls made.
IssueRequest(log, request) == Append(log, request)

\* The rest of send_request (lines 77-81) for an exchange that came back
\* with `answer`: raise_for_status raises HTTPError for a 4xx or 5xx status;
\* any RequestException is reported with st.error and None returned.
send_request(answer) ==
  IF answer.transport # "ok" \/ RaisesForStatus(answer.status)
    THEN [response |-> None, shown |-> <<StError("HTTP request failed")>>]
    ELSE [response |-> answer, shown |-> <<>>]

(***************************************************************************)
(* State                                                                   *)
(***************************************************************************)

VARIABLES
  mpc,              \* position of the module-level script
  CounterName,      \* the object the global name Counter is bound to
  c,                \* value of the my_app_requests counter (-1: not created)
  server,           \* whether the metrics HTTP server was started
  slept,            \* seconds of the last time.sleep in handle_request
  pc,               \* position of single_page_app: Idle between runs
  session_state,    \* st.session_state
  location,         \* the value of the location text input in this run
  button,           \* st.button("Submit") of the current run
  env,              \* what the two endpoints answer when called
  ui,               \* the elements the current run has put on the page
  bar,              \* the st.progress bar of show_loading_bar
  rendered_summary, \* the summary display_weather_summary has rendered
  sent,             \* requests.get / requests.post calls made by this run
  net,              \* the calls that have not returned yet
  exc,              \* the exception that left single_page_app uncaught
  weather_data,     \* process_weather_data: its argument's 'list'
  agg_result,       \* process_weather_data: what the call gave
  suggestions,      \* format_outfit_suggestions: its argument's keys
  fmt_result        \* format_outfit_suggestions: what the call gave

script_vars == <<mpc, CounterName, c, server, slept>>
page_vars ==
  <<pc, session_state, location, button, env, ui, bar, rendered_summary, sent, net, exc>>
agg_vars == <<weather_data, agg_result>>
fmt_vars == <<suggestions, fmt_result>>
vars == <<script_vars, page_vars, agg_vars, fmt_vars>>

\* The options of the two st.selectbox widgets and the texts the model
\* types into st.text_input.
ActivityLevels == {"Low", "Medium", "High"}
ActivityTypes == {"Formal", "Informal", "Sport"}
Locations == {"", "London"}

\* str.lower on the selectbox options.
Lower(s) ==
  CASE s = "Low" -> "low" [] s = "Medium" -> "medium" [] s = "High" -> "high"
    [] s = "Formal" -> "formal" [] s = "Informal" -> "informal"
    [] s = "Sport" -> "sport" [] OTHER -> s

\* st.session_state before any Submit: none of the four keys is set.
EmptySession ==
  [activity_level |-> "unset", activity_type |-> "unset",
   location |-> "unset", submitted |-> FALSE]

NotCalled == [called |-> FALSE, exc |-> "none", value |-> NoSummary]
NotFormatted == [called |-> FALSE, exc |-> "none", markup |-> <<>>, missing |-> ""]

\* The default of show_loading_bar's parameter total (line 84).
LoadingBarTotal == 100

\* No progress bar on the page: before st.progress and after empty().
NoBar == [shown |-> FALSE, message |-> "", percent |-> 0]

\* The page after a run without the button pressed and before any Submit,
\* with endpoints that will answer e.
PageAt(where, e) ==
  /\ pc = where
  /\ session_state = EmptySession
  /\ location = ""
  /\ button = FALSE
  /\ env = e
  /\ ui = <<>>
  /\ bar = NoBar
  /\ rendered_summary = NoSummary
  /\ sent = <<>>
  /\ net = {}
  /\ exc = "none"

HelpersIdle ==
  /\ weather_data = <<>>
  /\ agg_result = NotCalled
  /\ suggestions = {}
  /\ fmt_result = NotFormatted

\* The module namespace once lines 1-21 have run: the functions are defined
\* and the name Counter is bound to the object the last import gave it.
ScriptDone ==
  /\ mpc = "main"
  /\ CounterName = BoundCounter
  /\ c = 0
  /\ server = TRUE
  /\ slept = 0

(***************************************************************************)
(* The module-level script, lines 1-24                                     *)
(***************************************************************************)

\* line 7: from collections import Counter
ImportCollections ==
  /\ mpc = "import_collections"
  /\ CounterName' = CounterImports[1]
  /\ mpc' = "import_prometheus"
  /\ UNCHANGED <<c, server, slept, page_vars, agg_vars, fmt_vars>>

\* line 9: from prometheus_client import start_http_server, Counter
ImportPrometheus ==
  /\ mpc = "import_prometheus"
  /\ CounterName' = CounterImports[2]
  /\ mpc' = "create_counter"
  /\ UNCHANGED <<c, server, slept, page_vars, agg_vars, fmt_vars>>

\* line 13: c = Counter('my_app_requests', 'Total number of requests')
CreateCounter ==
  /\ mpc = "create_counter"
  /\ c' = 0
  /\ mpc' = "start_http_server"
  /\ UNCHANGED <<CounterName, server, slept, page_vars, agg_vars, fmt_vars>>

\* line 21: start_http_server(8000)
StartServer ==
  /\ mpc = "start_http_server"
  /\ server' = TRUE
  /\ mpc' = "while_true"
  /\ UNCHANGED <<CounterName, c, slept, page_vars, agg_vars, fmt_vars>>

\* The seconds random.randint(1, 5) can give.
SleepSeconds == 1..5

\* lines 23-24 and 15-18: one turn of `while True: handle_request()`:
\* c.inc(), then time.sleep(random.randint(1, 5)).  The loop has no exit:
\* control returns to its head.  Counter values above MaxRequests are not
\* told apart.
handle_request ==
  /\ mpc = "while_true"
  /\ c' = IF c < MaxRequests THEN c + 1 ELSE c
  /\ \E d \in SleepSeconds : slept' = d
  /\ mpc' = "while_true"
  /\ UNCHANGED <<CounterName, server, page_vars, agg_vars, fmt_vars>>

Init ==
  /\ mpc = "import_collections"
  /\ CounterName = "unbound"
  /\ c = -1
  /\ server = FALSE
  /\ slept = 0
  /\ PageAt("not_started", [weather |-> NoResponse, rec |-> NoResponse])
  /\ HelpersIdle

Next ==
  \/ ImportCollections
  \/ ImportPrometheus
  \/ CreateCounter
  \/ StartServer
  \/ handle_request

\* The program as `streamlit run` executes it, from the first line.
Spec == Init /\ [][Next]_vars

\* The same with the interpreter always taking its next step.
FairSpec == Spec /\ WF_vars(Next)

(***************************************************************************)
(* single_page_app, lines 305-370                                          *)
(***************************************************************************)

\* A guard that lets every location through.
AnyLocation(text) == TRUE

\* `if location:` (line 310): an empty string is falsy.
LocationGiven(text) == text # ""

\* st.session_state.update({...}) of lines 311-316.
UpdateSession(level, type, text) ==
  [activity_level |-> level, activity_type |-> type,
   location |-> text, submitted |-> TRUE]

\* The elements display_weather_summary puts on the page.
display_weather_summary ==
  <<StSubheader("Average weather over the next 24 hours"),
    StMarkdown("weather-info")>>

\* The elements display_forecasts(list) puts on the page: the subheader and
\* one expander per forecast entry.
display_forecasts(list) ==
  <<StSubheader("Three Hourly Forecasts (Click to Expand)")>>
    \o [i \in 1..Len(list) |-> [kind |-> "expander", text |-> "Details"]]

\* `except ValueError` (line 363) is the only handler around the cycle.
Caught(e) == e = "ValueError"

\* The run is over: control is back with Streamlit, which waits for the next
\* interaction.  e is the exception that left single_page_app, or "none".
EndRun(shown, e) ==
  /\ pc' = "Idle"
  /\ ui' = shown
  /\ bar' = NoBar
  /\ exc' = e

\* The handler of lines 363-365.
ReadFailed(shown) ==
  EndRun(shown \o <<StError("Failed to read weather data."), StWrite("e")>>, "none")

\* The JSON body of the recommendation POST (lines 337-344).  The locals
\* activity_level and activity_type are the values lines 311-316 stored in
\* the session state earlier in the same run.
aggregated_data(session, summary) ==
  [activity_level |-> Lower(session.activity_level),
   activity_type |-> Lower(session.activity_type),
   summary |-> summary]

\* progress_bar = st.progress(0, text=message), line 101.
StProgress(message) == [shown |-> TRUE, message |-> message, percent |-> 0]

\* A run with Submit pressed, up to the first time.sleep of the loading bar
\* (lines 305-318 and 101, or 369-370).  Streamlit reruns the script on the
\* click: the page is drawn anew.  With a location the session state is
\* updated and the loading bar is put on the page.
Submit ==
  /\ pc = "Idle"
  /\ \E level \in ActivityLevels, type \in ActivityTypes, text \in Locations :
       /\ location' = text
       /\ button' = TRUE
       /\ rendered_summary' = NoSummary
       /\ exc' = "none"
       /\ sent' = <<>>
       /\ UNCHANGED net
       /\ IF LocationGiven(text)
            THEN /\ session_state' = UpdateSession(level, type, text)
                 /\ ui' = <<>>
                 /\ bar' = StProgress("Fetching Weather Information")
                 /\ pc' = "LoadingWeather"
            ELSE /\ ui' = <<StError("Please enter a location.")>>
                 /\ bar' = NoBar
                 /\ pc' = "Idle"
                 /\ UNCHANGED session_state
  /\ UNCHANGED <<env, script_vars, agg_vars, fmt_vars>>

\* A run with the button not pressed (another widget was changed): line 309
\* is false and has no else, so the run draws the form only.  What the run
\* before it showed is gone; the session state stays.
RunWithoutSubmit ==
  /\ pc = "Idle"
  /\ \E text \in Locations : location' = text
  /\ button' = FALSE
  /\ ui' = <<>>
  /\ bar' = NoBar
  /\ rendered_summary' = NoSummary
  /\ sent' = <<>>
  /\ exc' = "none"
  /\ UNCHANGED <<net, pc, session_state, env, script_vars, agg_vars, fmt_vars>>

\* One turn of the loop of show_loading_bar (lines 102-104):
\* time.sleep(0.01), then progress_bar.progress(percent + 1).
LoadingBarStep ==
  /\ pc \in {"LoadingWeather", "LoadingRecommendation"}
  /\ bar.percent < LoadingBarTotal
  /\ bar' = [bar EXCEPT !.percent = @ + 1]
  /\ UNCHANGED <<pc, session_state, location, button, env, ui, rendered_summary,
                 sent, net, exc, script_vars, agg_vars, fmt_vars>>

\* The loop of show_loading_bar is over: progress_bar.empty() (line 105),
\* and the run goes on to requests.get (lines 320-321, 73) after the first
\* bar, to requests.post (lines 348-349, 75-76) after the second.
LoadingBarEnds ==
  /\ pc \in {"LoadingWeather", "LoadingRecommendation"}
  /\ bar.percent = LoadingBarTotal
  /\ bar' = NoBar
  /\ IF pc = "LoadingWeather"
       THEN /\ sent' = IssueRequest(sent, [method |-> "GET", json |-> NoPayload])
            /\ net' = net \cup {"GET"}
            /\ pc' = "AwaitingWeather"
       ELSE /\ sent' = IssueRequest(sent,
                         [method |-> "POST",
                          json |-> aggregated_data(session_state, rendered_summary)])
            /\ net' = net \cup {"POST"}
            /\ pc' = "AwaitingRecommendation"
  /\ UNCHANGED <<session_state, location, button, env, ui, rendered_summary, exc,
                 script_vars, agg_vars, fmt_vars>>

\* Lines 321-346 and 362-368: the weather GET returns and the run goes on to
\* the second loading bar or to its end.
WeatherReturns ==
  LET r == send_request(env.weather)
      shown1 == ui \o r.shown
  IN  IF ~(Truthy(r.response) /\ r.response.status = 200)
        THEN \* lines 367-368 read weather_response.status_code
             /\ IF r.response = None
                  THEN EndRun(shown1, "AttributeError")
                  ELSE EndRun(shown1 \o <<StError("Failed to fetch weather data."),
                                         StWrite("Response content")>>, "none")
             /\ UNCHANGED rendered_summary
        ELSE IF ~r.response.parseable
          THEN \* weather_response.json() raises a ValueError
               /\ ReadFailed(shown1)
               /\ UNCHANGED rendered_summary
          ELSE LET body == r.response.body
                   shown2 == IF body.has_city
                               THEN shown1 \o <<StSuccess("Weather information retrieved successfully!"),
                                                StSubheader("Weather Information for")>>
                               ELSE shown1
               IN  IF ~body.has_list
                     THEN /\ EndRun(shown2, "none")
                          /\ UNCHANGED rendered_summary
                     ELSE LET res == process_weather_data(CounterName, body.list)
                          IN  IF res.exc # "none"
                                THEN /\ IF Caught(res.exc)
                                          THEN ReadFailed(shown2)
                                          ELSE EndRun(shown2, res.exc)
                                     /\ UNCHANGED rendered_summary
                                ELSE /\ rendered_summary' = res.value
                                     /\ ui' = shown2 \o display_weather_summary
                                     /\ bar' = StProgress("Generating Outfit Suggestions")
                                     /\ pc' = "LoadingRecommendation"
                                     /\ UNCHANGED exc

\* Lines 349-361: the recommendation POST returns and the run ends.
RecommendationReturns ==
  LET r == send_request(env.rec)
      shown1 == ui \o r.shown
      forecasts == display_forecasts(env.weather.body.list)
  IN  /\ UNCHANGED rendered_summary
      /\ IF Truthy(r.response) /\ r.response.status = 200
           THEN LET shown2 == shown1 \o <<StSubheader("AI Generated Clothing Recommendations")>>
                    f == format_outfit_suggestions(r.response.body.keys)
                IN  IF ~r.response.parseable
                      THEN ReadFailed(shown2)
                      ELSE IF f.exc # "none"
                        THEN IF Caught(f.exc) THEN ReadFailed(shown2)
                                              ELSE EndRun(shown2, f.exc)
                        ELSE EndRun(shown2 \o <<StMarkdown("response-info")>> \o forecasts,
                                    "none")
           ELSE \* lines 358-359 read lambda_response.status_code
                IF r.response = None
                  THEN EndRun(shown1, "AttributeError")
                  ELSE EndRun(shown1 \o <<StError("Failed to send data."),
                                         StWrite("Response content")>> \o forecasts,
                              "none")

\* send_request returns to single_page_app, which runs on to its next
\* blocking call or to the end of the run.  While the name Counter is bound
\* to prometheus_client.Counter, process_weather_data raises in
\* WeatherReturns and no run gets as far as the second loading bar.
SendRequestReturns ==
  /\ pc \in {"AwaitingWeather", "AwaitingRecommendation"}
  /\ net' = net \ {IF pc = "AwaitingWeather" THEN "GET" ELSE "POST"}
  /\ IF pc = "AwaitingWeather" THEN WeatherReturns ELSE RecommendationReturns
  /\ UNCHANGED <<session_state, location, button, env, sent,
                 script_vars, agg_vars, fmt_vars>>

\* single_page_app called with the module namespace of lines 1-21 in place,
\* against endpoints answering in any of the modelled ways.
PageInit ==
  /\ ScriptDone
  /\ \E w \in WeatherResponses, r \in RecommendationResponses :
       PageAt("Idle", [weather |-> w, rec |-> r])
  /\ HelpersIdle

PageNext ==
  \/ Submit
  \/ RunWithoutSubmit
  \/ LoadingBarStep
  \/ LoadingBarEnds
  \/ SendRequestReturns

PageSpec == PageInit /\ [][PageNext]_vars

(***************************************************************************)
(* process_weather_data and format_outfit_suggestions called on their own  *)
(***************************************************************************)

\* process_weather_data(weather_data) is called and returns or raises.
CallProcessWeatherData ==
  /\ ~agg_result.called
  /\ LET res == process_weather_data(CounterName, weather_data)
     IN  agg_result' = [called |-> TRUE, exc |-> res.exc, value |-> res.value]
  /\ UNCHANGED <<weather_data, script_vars, page_vars, fmt_vars>>

\* process_weather_data given any forecast list, in the module namespace of
\* lines 1-21.
AggregatorInit ==
  /\ ScriptDone
  /\ PageAt("not_started", [weather |-> NoResponse, rec |-> NoResponse])
  /\ weather_data \in ForecastLists
  /\ agg_result = NotCalled
  /\ suggestions = {}
  /\ fmt_result = NotFormatted

AggregatorNext == CallProcessWeatherData

AggregatorSpec == AggregatorInit /\ [][AggregatorNext]_vars

\* The keys a recommendation reply may hold: the five slots and one more.
ReplyKeys == SlotSet \cup {"Notes"}

\* format_outfit_suggestions(suggestions) is called and returns or raises.
CallFormatOutfitSuggestions ==
  /\ ~fmt_result.called
  /\ LET res == format_outfit_suggestions(suggestions)
     IN  fmt_result' = [called |-> TRUE, exc |-> res.exc, markup |-> res.markup,
                        missing |-> res.missing]
  /\ UNCHANGED <<suggestions, script_vars, page_vars, agg_vars>>

\* format_outfit_suggestions given a dict with any of the reply keys.
FormatterInit ==
  /\ ScriptDone
  /\ PageAt("not_started", [weather |-> NoResponse, rec |-> NoResponse])
  /\ weather_data = <<>>
  /\ agg_result = NotCalled
  /\ suggestions \in SUBSET ReplyKeys
  /\ fmt_result = NotFormatted

FormatterNext == CallFormatOutfitSuggestions

FormatterSpec == FormatterInit /\ [][FormatterNext]_vars

(***************************************************************************)
(* Properties                                                              *)
(***************************************************************************)

\* A run started by Submit with a location has come to its end.
RunEnded == pc = "Idle" /\ button /\ location # ""

\* The page shows an st.error element.
ErrorShown == \E i \in 1..Len(ui) : ui[i].kind = "error"

\* The number of calls with the given method this run has made.
Calls(method) == Cardinality({i \in 1..Len(sent) : sent[i].method = method})

\* How an endpoint's answer fails.
NetworkFailure(answer) ==
  answer.transport # "ok" \/ (400 <= answer.status /\ answer.status < 600)
Unparseable(answer) ==
  answer.transport = "ok" /\ answer.status = 200 /\ ~answer.parseable
HasJson(answer) ==
  answer.transport = "ok" /\ answer.status = 200 /\ answer.parseable
NoForecastList(answer) == HasJson(answer) /\ ~answer.body.has_list
EmptyForecastList(answer) ==
  HasJson(answer) /\ answer.body.has_list /\ answer.body.list = <<>>
GoodForecast(answer) ==
  HasJson(answer) /\ answer.body.has_list /\ answer.body.list # <<>>
MissingSlot(answer) == HasJson(answer) /\ ~(SlotSet \subseteq answer.body.keys)

\* x is the arithmetic mean of xs: x * count = sum, as fractions.
IsMeanOf(x, xs) == x.den # 0 /\ x.num * Len(xs) = SumSeq(xs) * x.den

\* The position of the first occurrence of x in xs.
FirstAt(xs, x) == CHOOSE i \in 1..Len(xs) : xs[i] = x /\ \A j \in 1..(i - 1) : xs[j] # x

\* C1: a run in which the weather request fails at the network level, the
\* weather body is unparseable, the forecast list is empty, the
\* recommendation request fails at the network level, or the recommendation
\* reply lacks a slot ends with an error message on the page and with no
\* exception having left single_page_app.
C1_FailuresCaught ==
  (/\ RunEnded
   /\ \/ NetworkFailure(env.weather)
      \/ Unparseable(env.weather)
      \/ EmptyForecastList(env.weather)
      \/ GoodForecast(env.weather) /\ NetworkFailure(env.rec)
      \/ GoodForecast(env.weather) /\ MissingSlot(env.rec))
    => (ErrorShown /\ exc = "none")

\* C2: a run whose weather request succeeded with a non-empty forecast list
\* and whose recommendation endpoint fails ends with an error message on the
\* page and with the summary of that forecast list rendered.
C2_PartialSuccess ==
  (RunEnded /\ GoodForecast(env.weather) /\ NetworkFailure(env.rec))
    => /\ ErrorShown
       /\ rendered_summary # NoSummary
       /\ rendered_summary.most_common_weather \in
            {env.weather.body.list[i].main : i \in 1..Len(env.weather.body.list)}

\* C3: a Submit with an empty location shows the validation error, leaves
\* the page Idle, makes no request and leaves the session state as it was.
C3_EmptyLocationStaysIdle ==
  [][(pc = "Idle" /\ button' /\ location' = "")
       => /\ pc' = "Idle"
          /\ session_state' = session_state
          /\ sent' = <<>>
          /\ net' = {}
          /\ ui' = <<StError("Please enter a location.")>>
          /\ bar' = NoBar
          /\ exc' = "none"]_vars

\* C3 witness: after a Submit that stored a session, a Submit with an empty
\* location has shown the validation error.
C3_Witness ==
  /\ pc = "Idle" /\ button /\ location = ""
  /\ session_state.submitted
  /\ session_state.location = "London"
  /\ ui = <<StError("Please enter a location.")>>
  /\ sent = <<>>

\* C4: a run makes at most one weather GET and at most one recommendation
\* POST, in that order; the POST is made only after the GET has returned a
\* non-empty forecast list and the summary of that list was rendered, and
\* carries that summary; no two calls are outstanding at once; a call that
\* failed is not made again.  No run of PageSpec makes a POST
\* (process_weather_data raises at line 162 first), so in PageSpec the
\* clauses about the POST hold with nothing to hold of: the formula settles
\* the GET half of the claim only.
C4_SequentialSingleAttempt ==
  /\ Cardinality(net) <= 1
  /\ Calls("GET") <= 1
  /\ Calls("POST") <= 1
  /\ \A i \in 1..Len(sent) :
       sent[i].method = "POST"
         => /\ i = 2 /\ sent[1].method = "GET"
            /\ "GET" \notin net
            /\ GoodForecast(env.weather)
            /\ rendered_summary # NoSummary
            /\ rendered_summary =
                 process_weather_data("collections.Counter", env.weather.body.list).value
            /\ sent[i].json.summary = rendered_summary
  /\ net \subseteq {sent[i].method : i \in 1..Len(sent)}
  /\ bar.shown => net = {}
  /\ (pc = "AwaitingWeather") = (net = {"GET"})
  /\ (pc = "AwaitingRecommendation") = (net = {"POST"})
  /\ pc = "Idle" => net = {}
  /\ (RunEnded /\ ~GoodForecast(env.weather)) => Calls("POST") = 0
  /\ (RunEnded /\ NetworkFailure(env.weather)) => Len(sent) = 1
  /\ (RunEnded /\ Calls("POST") = 1) => Len(sent) = 2

\* C5: a run whose weather answer arrived with status 200 but is not JSON,
\* has no forecast list or has an empty one ends with an error message on
\* the page, without an escaped exception and without a recommendation POST.
C5_MalformedBodyIsError ==
  (/\ RunEnded
   /\ \/ Unparseable(env.weather)
      \/ NoForecastList(env.weather)
      \/ EmptyForecastList(env.weather))
    => (ErrorShown /\ exc = "none" /\ Calls("POST") = 0)

\* C6: process_weather_data on a non-empty list returns the arithmetic means
\* of temp, humidity and wind speed; on a single entry these are the entry's
\* values and the condition is the entry's.
C6_ArithmeticMeans ==
  (agg_result.called /\ weather_data # <<>>)
    => /\ agg_result.exc = "none"
       /\ IsMeanOf(agg_result.value.avg_temp,
                   [i \in 1..Len(weather_data) |-> weather_data[i].temp])
       /\ IsMeanOf(agg_result.value.avg_humidity,
                   [i \in 1..Len(weather_data) |-> weather_data[i].humidity])
       /\ IsMeanOf(agg_result.value.avg_wind_speed,
                   [i \in 1..Len(weather_data) |-> weather_data[i].speed])
       /\ Len(weather_data) = 1
            => agg_result.value.most_common_weather = weather_data[1].main

\* C7: process_weather_data on a non-empty list returns a condition whose
\* count is largest, and among those tied for the largest count the one
\* seen first.
C7_FirstSeenMode ==
  (agg_result.called /\ weather_data # <<>>)
    => LET conds == [i \in 1..Len(weather_data) |-> weather_data[i].main]
           got == agg_result.value.most_common_weather
       IN  /\ agg_result.exc = "none"
           /\ \E i \in 1..Len(conds) : conds[i] = got
           /\ \A i \in 1..Len(conds) :
                /\ Count(conds, conds[i]) <= Count(conds, got)
                /\ Count(conds, conds[i]) = Count(conds, got)
                     => FirstAt(conds, got) <= FirstAt(conds, conds[i])

\* C8: process_weather_data on an empty list raises EmptyInputError.
C8_EmptyInputError ==
  (agg_result.called /\ weather_data = <<>>)
    => agg_result.exc = "EmptyInputError"

\* C9: format_outfit_suggestions raises the missing-key error and returns no
\* markup when one of the five slots is absent, naming an absent slot; with
\* all five present it returns the markup of the five slots.
C9_MissingSlotFails ==
  fmt_result.called
    => IF SlotSet \subseteq suggestions
         THEN fmt_result.exc = "none" /\ fmt_result.markup = Slots
         ELSE /\ fmt_result.exc = "KeyError"
              /\ fmt_result.markup = <<>>
              /\ fmt_result.missing \in SlotSet \ suggestions

\* C9 witness: the call on a reply without Outerwear raised KeyError.
C9_Witness ==
  /\ fmt_result.called
  /\ suggestions = SlotSet \ {"Outerwear"}
  /\ fmt_result.exc = "KeyError"
  /\ fmt_result.missing = "Outerwear"

\* C10: from the start of the program, execution eventually reaches
\* single_page_app waiting for a submission.
C10_ReachesIdle == <>(pc = "Idle")

====
